---------------------------- MODULE Spec2Model ----------------------------
(***************************************************************************)
(* A model of grp/src/lib.rs: RandomPassword::new validates three counts,  *)
(* RandomPassword::show builds a password from three character            *)
(* categories (letters, symbols, digits), decomposing each count into      *)
(* chunks of at most UNIT, sampling random indices per chunk, joining the  *)
(* chunk strings and shuffling the bytes.                                  *)
(*                                                                         *)
(* A String is modelled as the sequence of its code points, a byte buffer  *)
(* as a sequence of byte values.  Indices are 0-based as in the source;    *)
(* TLA+ sequences are 1-based, so data[idx] of the source is data[idx+1].  *)
(***************************************************************************)
EXTENDS Integers, Sequences, FiniteSets

VARIABLES
    pc,        \* position: "start", "err", "idle", "div", "par", "join", "shuffle",
               \* "store"; "failed" when a call panicked or never left a loop;
               \* "test" / "tested" around a direct call of a helper
    args,      \* the three arguments RandomPassword::new was called with
    res,       \* what new returned: "none" (not called), "Ok" or the Err string
    length,    \* RandomPassword.length
    sbl_cnt,   \* RandomPassword.sbl_cnt
    num_cnt,   \* RandomPassword.num_cnt
    content,   \* RandomPassword.content
    calls,     \* number of show() calls the caller makes on the object
    shows,     \* number of completed show() calls
    cnts,      \* show: the three counts handed to _PWD (letters, symbols, numbers)
    cat,       \* _PWD: category the outer iterator is at (1..3)
    chunk,     \* _PWD: chunk[c] = _DIV_UNIT(cnts[c]) once computed
    out,       \* _PWD: out[c][i] = the string chunk task i of category c produced
    order,     \* _PWD: order[c] = chunk tasks of category c, in completion order
    parts,     \* _PWD: parts[c] = the collected Vec<String> of category c
    PWD,       \* show: the String _PWD returned (kept as the pre-shuffle value)
    bytes,     \* show: the byte buffer of PWD after shuffle
    returned,  \* what the last show() returned
    t_in,      \* inputs of a direct call of a helper (unit tests)
    t_out      \* its result

vars == <<pc, args, res, length, sbl_cnt, num_cnt, content, calls, shows, cnts, cat,
          chunk, out, order, parts, PWD, bytes, returned, t_in, t_out>>

obj    == <<length, sbl_cnt, num_cnt, content>>
locals == <<cnts, cat, chunk, out, order, parts, PWD, bytes>>
tests  == <<t_in, t_out>>

-----------------------------------------------------------------------------
(* Bounds of the model                                                     *)

MaxSmall == 2       \* small arguments of new: -1 .. MaxSmall
MaxShows == 2       \* show() calls per object, where a caller calls repeatedly
RngPeriod == 2      \* the modelled generator repeats its raw words with this period
MaxN == 300         \* _DIV_UNIT called directly with 0 .. MaxN
MaxK == 3           \* _RAND_IDX called directly with n in 0 .. MaxK
MaxCnt == 3         \* _RAND_IDX called directly with cnt in 1 .. MaxCnt (and 10, 32, 52)

-----------------------------------------------------------------------------
(* Values                                                                  *)

\* the two Err strings of new (written here without their backquotes)
ErrPositive == "length, sbl_cnt and num_cnt should all be positive"
ErrLength   == "length should be greater than or equal to sbl_cnt plus num_cnt"

\* i8::MAX
UNIT == 127

-----------------------------------------------------------------------------
(* Sequence helpers                                                        *)

RECURSIVE Concat(_)
\* [T]::concat / collect::<String>() of Strings: the items, flattened in order
\* (computed by halves, which keeps the evaluation depth logarithmic)
Concat(ss) ==
    IF Len(ss) = 0 THEN <<>>
    ELSE IF Len(ss) = 1 THEN ss[1]
    ELSE LET h == Len(ss) \div 2
         IN  Concat(SubSeq(ss, 1, h)) \o Concat(SubSeq(ss, h + 1, Len(ss)))

RECURSIVE Sum(_)
Sum(s) == IF s = <<>> THEN 0 ELSE Head(s) + Sum(Tail(s))

RECURSIVE JoinStr(_, _)
\* [String]::join(sep)
JoinStr(ss, sep) ==
    IF ss = <<>> THEN <<>>
    ELSE IF Len(ss) = 1 THEN Head(ss)
    ELSE Head(ss) \o sep \o JoinStr(Tail(ss), sep)

-----------------------------------------------------------------------------
(* The random source.  thread_rng() is a seeded generator of raw words;    *)
(* gen_range(low, high) scales a raw word v in 0 .. RngRange-1 into        *)
(* low .. high-1 by a widening multiply (rand's UniformInt), and panics    *)
(* when low >= high.  A generator state is modelled as the finite          *)
(* sequence of raw words it is about to produce, read cyclically.          *)

RngRange == 2 * (UNIT + 1)

\* the k-th raw word (k = 1, 2, ...) of generator rng
RawWord(rng, k) == rng[((k - 1) % Len(rng)) + 1]

\* gen_range with an inclusive upper end, as gen_range(low, high + 1) would be
GenRangeInclusive(low, high, v) == low + ((v * (high - low + 1)) \div RngRange)

\* rng.gen_range(low, high), given the raw word v it consumes (low < high)
GenRange(low, high, v) == low + ((v * (high - low)) \div RngRange)

\* generator states a chunk task or the shuffle may find: every period-RngPeriod
\* stream of extreme raw words (lowest and highest outcome of every draw)
Seeds == [1..RngPeriod -> {0, RngRange - 1}]

-----------------------------------------------------------------------------
(* Pure functions of the source                                            *)

\* ToBigUint::to_biguint for a primitive integer: None when negative
ToBigUint(x) == IF x < 0 THEN [some |-> FALSE, v |-> 0] ELSE [some |-> TRUE, v |-> x]

\* (start..=end).collect::<Vec<_>>()
ByteRange(start, end) == [i \in 1..(end - start + 1) |-> start + (i - 1)]

\* (asc_num as char).to_string(): the one-character string of code point asc_num
CharToString(asc_num) == <<asc_num>>

\* _GEN: the single-character strings of every byte of every range, in order
_GEN(range_list) ==
    Concat([r \in 1..Len(range_list) |->
              LET bs == ByteRange(range_list[r][1], range_list[r][2])
              IN  [i \in 1..Len(bs) |-> CharToString(bs[i])]])

\* _DATA with the digit range running one byte too far
DataDigitsOff ==
    << _GEN(<< <<65, 90>>, <<97, 122>> >>),
       _GEN(<< <<33, 47>>, <<58, 64>>, <<91, 96>>, <<123, 126>> >>),
       _GEN(<< <<48, 58>> >>) >>

\* _DATA: (letters, symbols, numbers)
_DATA ==
    << _GEN(<< <<65, 90>>, <<97, 122>> >>),
       _GEN(<< <<33, 47>>, <<58, 64>>, <<91, 96>>, <<123, 126>> >>),
       _GEN(<< <<48, 57>> >>) >>

RECURSIVE DivLoop(_, _)
\* the loop of _DIV_UNIT: n is the remaining BigUint, ret the Vec built so far
DivLoop(n, ret) ==
    IF n < UNIT
    THEN Append(ret, n)
    ELSE DivLoop(n - UNIT, Append(ret, UNIT))

RECURSIVE DivLoopNoPush(_, _)
\* the loop of _DIV_UNIT without the push of its else branch
DivLoopNoPush(n, ret) ==
    IF n < UNIT
    THEN Append(ret, n)
    ELSE DivLoopNoPush(n - UNIT, ret)

\* _DIV_UNIT losing every full chunk
DivUnitNoPush(n) == DivLoopNoPush(n, <<>>)

RECURSIVE DivLoopSkipsZero(_, _)
\* the loop of _DIV_UNIT leaving without a push when nothing remains
DivLoopSkipsZero(n, ret) ==
    IF n = 0
    THEN ret
    ELSE IF n < UNIT
    THEN Append(ret, n)
    ELSE DivLoopSkipsZero(n - UNIT, Append(ret, UNIT))

\* _DIV_UNIT emitting no chunk for a remainder of 0
DivUnitSkipsZero(n) == DivLoopSkipsZero(n, <<>>)

\* _DIV_UNIT(n)
_DIV_UNIT(n) == DivLoop(n, <<>>)

\* a pass of the while loop of _RAND_IDX that forgets n -= 1
RandPassKeepsN(st, cnt, rng) ==
    IF 0 >= cnt
    THEN [st EXCEPT !.ok = FALSE]
    ELSE [st EXCEPT !.idx_s = Append(@, GenRange(0, cnt, RawWord(rng, st.k))),
                    !.k = @ + 1]

\* one pass of the while loop of _RAND_IDX on state st = (n draws left, idx_s
\* built so far, k-th raw word next); gen_range(0, cnt) panics when cnt = 0
RandPass(st, cnt, rng) ==
    IF 0 >= cnt
    THEN [st EXCEPT !.ok = FALSE]
    ELSE [st EXCEPT !.idx_s = Append(@, GenRange(0, cnt, RawWord(rng, st.k))),
                    !.n = @ - 1,
                    !.k = @ + 1]

RECURSIVE RandLoop(_, _, _, _)
\* the while loop of _RAND_IDX, run from state st for at most m passes: it stops
\* when n = 0 (or on a panic).  The passes are composed by halves, which keeps
\* the evaluation depth logarithmic.
RandLoop(m, st, cnt, rng) ==
    IF m = 0 \/ st.n = 0 \/ ~st.ok THEN st
    ELSE IF m = 1 THEN RandPass(st, cnt, rng)
    ELSE RandLoop(m - (m \div 2), RandLoop(m \div 2, st, cnt, rng), cnt, rng)

\* _RAND_IDX(n, cnt) run on generator rng: each pass decrements n, so the loop
\* has exited after n passes; ok is FALSE when it panicked or has not exited
_RAND_IDX(n, cnt, rng) ==
    LET st == RandLoop(n, [n |-> n, idx_s |-> <<>>, k |-> 1, ok |-> TRUE], cnt, rng)
    IN  [ok |-> st.ok /\ st.n = 0, v |-> st.idx_s]

\* the closure of _PWD run for one chunk: sample cnt indices, map each to
\* data[idx].clone() (panics when idx is out of bounds), collect::<String>()
ChunkString(cnt, data, rng) ==
    LET r == _RAND_IDX(cnt, Len(data), rng)
    IN  IF ~r.ok \/ \E j \in 1..Len(r.v) : r.v[j] >= Len(data)
        THEN [ok |-> FALSE, v |-> <<>>]
        ELSE [ok |-> TRUE, v |-> Concat([j \in 1..Len(r.v) |-> data[r.v[j] + 1]])]

\* UTF-8 encoding of one code point below 2048
Utf8(cp) == IF cp < 128 THEN <<cp>> ELSE <<192 + (cp \div 64), 128 + (cp % 64)>>

\* String::as_bytes_mut: the UTF-8 bytes of the string
AsBytes(s) == Concat([i \in 1..Len(s) |-> Utf8(s[i])])

\* bytes.par_iter().map(|s| *s as char).collect::<String>(): byte b becomes code point b
AsChars(bs) == [i \in 1..Len(bs) |-> bs[i]]

\* a swap that overwrites buf[i] without saving it
SwapOverwrites(buf, i, j) == [buf EXCEPT ![i + 1] = buf[j + 1]]

\* slice::swap(i, j), 0-based
Swap(buf, i, j) == [buf EXCEPT ![i + 1] = buf[j + 1], ![j + 1] = buf[i + 1]]

\* one pass of the loop of SliceRandom::shuffle,
\*   for i in (1..len).rev() { swap(i, gen_range(0, i + 1)) },
\* on state st = (buf, i, k-th raw word next)
ShufflePass(st, rng) ==
    [st EXCEPT !.buf = Swap(@, st.i, GenRange(0, st.i + 1, RawWord(rng, st.k))),
               !.i = @ - 1,
               !.k = @ + 1]

RECURSIVE ShuffleLoop(_, _, _)
\* the loop of shuffle, run from state st for at most m passes: it stops when the
\* range is exhausted (i < 1).  Composed by halves, like RandLoop.
ShuffleLoop(m, st, rng) ==
    IF m = 0 \/ st.i < 1 THEN st
    ELSE IF m = 1 THEN ShufflePass(st, rng)
    ELSE ShuffleLoop(m - (m \div 2), ShuffleLoop(m \div 2, st, rng), rng)

\* bytes.shuffle(&mut thread_rng()) run on generator rng
Shuffle(buf, rng) ==
    ShuffleLoop(Len(buf), [buf |-> buf, i |-> Len(buf) - 1, k |-> 1], rng).buf

\* BigUint - BigUint: panics when the result would be negative
BigSub(a, b) == IF a < b THEN [ok |-> FALSE, v |-> 0] ELSE [ok |-> TRUE, v |-> a - b]

\* a collect that takes the chunk strings as their tasks complete
CollectedAsCompleted(o, ord) == [k \in 1..Len(ord) |-> o[ord[k]]]

\* rayon's indexed collect() of the chunk strings o, whose tasks completed in the
\* order ord: item i lands at position i, whatever ord is
Collected(o, ord) == [i \in 1..Len(o) |-> o[i]]

-----------------------------------------------------------------------------
(* State                                                                   *)

Empty3 == << <<>>, <<>>, <<>> >>

\* arguments new is called with: negative, small, and around UNIT
SmallVals == -1 .. MaxSmall
Vals == SmallVals \cup {UNIT, UNIT + 1}

InitLocals ==
    /\ cnts = <<0, 0, 0>>
    /\ cat = 1
    /\ chunk = Empty3
    /\ out = Empty3
    /\ order = Empty3
    /\ parts = Empty3
    /\ PWD = <<>>
    /\ bytes = <<>>

\* no object yet
InitObject ==
    /\ res = "none"
    /\ length = 0 /\ sbl_cnt = 0 /\ num_cnt = 0 /\ content = <<>>
    /\ shows = 0
    /\ returned = <<>>

\* a caller about to call new(a[1], a[2], a[3]) with a drawn from V x V x V,
\* and then show() c times on the object, if it gets one
Caller(V, c) ==
    /\ pc = "start"
    /\ args \in V \X V \X V
    /\ calls = c
    /\ InitObject
    /\ InitLocals
    /\ t_in = 0 /\ t_out = <<>>

\* one generation, arguments of every size
Init == Caller(Vals, 1)

\* repeated generation, small arguments
InitRepeat == Caller(SmallVals, MaxShows)

-----------------------------------------------------------------------------
(* RandomPassword::new                                                     *)

\* new comparing with > instead of >=
NewStrict ==
    /\ pc = "start"
    /\ LET l == ToBigUint(args[1])
           s == ToBigUint(args[2])
           n == ToBigUint(args[3])
       IN  IF l.some /\ s.some /\ n.some
           THEN IF l.v > s.v + n.v
                THEN /\ res' = "Ok"
                     /\ length' = l.v
                     /\ sbl_cnt' = s.v
                     /\ num_cnt' = n.v
                     /\ content' = <<>>
                     /\ pc' = "idle"
                ELSE /\ res' = ErrLength
                     /\ pc' = "err"
                     /\ UNCHANGED obj
           ELSE /\ res' = ErrPositive
                /\ pc' = "err"
                /\ UNCHANGED obj
    /\ UNCHANGED <<args, calls, shows, returned, locals, tests>>

\* new comparing the raw arguments before it looks at the conversions
NewLengthFirst ==
    /\ pc = "start"
    /\ LET l == ToBigUint(args[1])
           s == ToBigUint(args[2])
           n == ToBigUint(args[3])
       IN  IF args[1] < args[2] + args[3]
           THEN /\ res' = ErrLength
                /\ pc' = "err"
                /\ UNCHANGED obj
           ELSE IF l.some /\ s.some /\ n.some
                THEN /\ res' = "Ok"
                     /\ length' = l.v
                     /\ sbl_cnt' = s.v
                     /\ num_cnt' = n.v
                     /\ content' = <<>>
                     /\ pc' = "idle"
                ELSE /\ res' = ErrPositive
                     /\ pc' = "err"
                     /\ UNCHANGED obj
    /\ UNCHANGED <<args, calls, shows, returned, locals, tests>>

New ==
    /\ pc = "start"
    /\ LET l == ToBigUint(args[1])
           s == ToBigUint(args[2])
           n == ToBigUint(args[3])
       IN  IF l.some /\ s.some /\ n.some
           THEN IF l.v >= s.v + n.v
                THEN /\ res' = "Ok"
                     /\ length' = l.v
                     /\ sbl_cnt' = s.v
                     /\ num_cnt' = n.v
                     /\ content' = <<>>
                     /\ pc' = "idle"
                ELSE /\ res' = ErrLength
                     /\ pc' = "err"
                     /\ UNCHANGED obj
           ELSE /\ res' = ErrPositive
                /\ pc' = "err"
                /\ UNCHANGED obj
    /\ UNCHANGED <<args, calls, shows, returned, locals, tests>>

-----------------------------------------------------------------------------
(* RandomPassword::show, step by step                                      *)

\* lines 92-95: build the data, compute the letter count, call _PWD
ShowBegin ==
    /\ pc = "idle"
    /\ shows < calls
    /\ LET d == BigSub(length, sbl_cnt)
           e == IF d.ok THEN BigSub(d.v, num_cnt) ELSE d
       IN  IF e.ok
           THEN /\ cnts' = <<e.v, sbl_cnt, num_cnt>>
                /\ cat' = 1
                /\ pc' = "div"
           ELSE /\ cnts' = <<0, 0, 0>>
                /\ cat' = 1
                /\ pc' = "failed"
    /\ chunk' = Empty3 /\ out' = Empty3 /\ order' = Empty3 /\ parts' = Empty3
    /\ PWD' = <<>> /\ bytes' = <<>>
    /\ UNCHANGED <<args, res, obj, calls, shows, returned, tests>>

\* line 114: the outer iterator reaches category cat and decomposes its count
Decompose ==
    /\ pc = "div"
    /\ chunk' = [chunk EXCEPT ![cat] = _DIV_UNIT(cnts[cat])]
    /\ out' = [out EXCEPT ![cat] = [i \in 1..Len(chunk'[cat]) |-> <<>>]]
    /\ pc' = "par"
    /\ UNCHANGED <<args, res, obj, calls, shows, returned, cnts, cat, order, parts, PWD, bytes, tests>>

\* chunk tasks of category c that have completed
Done(c) == {order[c][k] : k \in 1..Len(order[c])}

\* lines 116-121: one task of the par_iter over the chunks of category cat
ChunkTask(i) ==
    /\ pc = "par"
    /\ i \in 1..Len(chunk[cat])
    /\ i \notin Done(cat)
    /\ \E rng \in Seeds :
          LET r == ChunkString(chunk[cat][i], _DATA[cat], rng)
          IN  IF r.ok
              THEN /\ out' = [out EXCEPT ![cat][i] = r.v]
                   /\ order' = [order EXCEPT ![cat] = Append(@, i)]
                   /\ pc' = "par"
              ELSE /\ pc' = "failed"
                   /\ UNCHANGED <<out, order>>
    /\ UNCHANGED <<args, res, obj, calls, shows, returned, cnts, cat, chunk, parts, PWD, bytes, tests>>

\* line 122: every task of category cat has completed; collect the chunk strings
\* and let the outer iterator move on
Collect ==
    /\ pc = "par"
    /\ Done(cat) = 1..Len(chunk[cat])
    /\ parts' = [parts EXCEPT ![cat] = Collected(out[cat], order[cat])]
    /\ IF cat < 3
       THEN cat' = cat + 1 /\ pc' = "div"
       ELSE cat' = cat /\ pc' = "join"
    /\ UNCHANGED <<args, res, obj, calls, shows, returned, cnts, chunk, out, order, PWD, bytes, tests>>

\* lines 124-126: .collect::<Vec<Vec<_>>>().concat().join("")
Join ==
    /\ pc = "join"
    /\ PWD' = JoinStr(Concat(parts), <<>>)
    /\ pc' = "shuffle"
    /\ UNCHANGED <<args, res, obj, calls, shows, returned, cnts, cat, chunk, out, order, parts, bytes, tests>>

\* lines 96-97: shuffle the bytes of PWD in place (PWD keeps the pre-shuffle value)
ShuffleBytes ==
    /\ pc = "shuffle"
    /\ \E rng \in Seeds : bytes' = Shuffle(AsBytes(PWD), rng)
    /\ pc' = "store"
    /\ UNCHANGED <<args, res, obj, calls, shows, returned, cnts, cat, chunk, out, order, parts, PWD, tests>>

\* a store that appends to the old content (push_str) instead of assigning
StoredAppended(old, bs) == old \o AsChars(bs)

\* the value line 98 assigns to self.content, given the old content and the bytes
Stored(old, bs) == AsChars(bs)

\* lines 98-100: self.content = ...; self.content.clone()
Store ==
    /\ pc = "store"
    /\ content' = Stored(content, bytes)
    /\ returned' = content'
    /\ shows' = shows + 1
    /\ pc' = "idle"
    /\ UNCHANGED <<args, res, length, sbl_cnt, num_cnt, calls, locals, tests>>

Next ==
    \/ New
    \/ ShowBegin
    \/ Decompose
    \/ \E i \in DOMAIN chunk[cat] : ChunkTask(i)
    \/ Collect
    \/ Join
    \/ ShuffleBytes
    \/ Store

Spec == Init /\ [][Next]_vars

SpecRepeat == InitRepeat /\ [][Next]_vars

-----------------------------------------------------------------------------
(* Direct calls of the helpers, as the unit tests make them                *)

InitTest ==
    /\ pc = "test"
    /\ args = <<0, 0, 0>>
    /\ calls = 0
    /\ InitObject
    /\ InitLocals
    /\ t_out = <<>>

\* _DIV_UNIT_works: _DIV_UNIT(n)
InitDiv == InitTest /\ t_in \in 0..MaxN

DivUnitCall ==
    /\ pc = "test"
    /\ t_out' = _DIV_UNIT(t_in)
    /\ pc' = "tested"
    /\ UNCHANGED <<args, res, obj, calls, shows, returned, locals, t_in>>

SpecDiv == InitDiv /\ [][DivUnitCall]_vars

\* category cardinalities _RAND_IDX is called with by _PWD (data.len())
DataLens == {Len(_DATA[c]) : c \in 1..3}

\* raw words a generator may produce first, in a direct call: lowest, middle, highest
RawSample == {0, RngRange \div 2, RngRange - 1}

\* _RAND_IDX_works: _RAND_IDX(n, cnt)
InitRand == InitTest /\ t_in \in [n : 0..MaxK, cnt : (1..MaxCnt) \cup DataLens]

RandIdxCall ==
    /\ pc = "test"
    /\ \E rng \in [1..MaxK -> RawSample] : t_out' = _RAND_IDX(t_in.n, t_in.cnt, rng)
    /\ pc' = "tested"
    /\ UNCHANGED <<args, res, obj, calls, shows, returned, locals, t_in>>

SpecRand == InitRand /\ [][RandIdxCall]_vars

-----------------------------------------------------------------------------
(* Vocabulary of the properties                                            *)

\* the byte ranges of the three categories, as the specification lists them
LetterBytes == (65..90) \cup (97..122)
SymbolBytes == (33..47) \cup (58..64) \cup (91..96) \cup (123..126)
DigitBytes  == 48..57
CatBytes == <<LetterBytes, SymbolBytes, DigitBytes>>

\* number of positions of s holding a member of S
CountIn(s, S) == Cardinality({i \in DOMAIN s : s[i] \in S})

\* the characters of a category's data
CharsOf(data) == {data[i][1] : i \in DOMAIN data}

\* s and t hold the same characters, each the same number of times
SameBag(s, t) ==
    /\ Len(s) = Len(t)
    /\ \A c \in {s[i] : i \in DOMAIN s} \cup {t[i] : i \in DOMAIN t} :
          CountIn(s, {c}) = CountIn(t, {c})

\* a show() call has returned and no other is in progress
Returned == pc = "idle" /\ shows >= 1

\* every chunk task of every category has completed
AllJoined == \A c \in 1..3 : chunk[c] # <<>> /\ Done(c) = DOMAIN chunk[c]

-----------------------------------------------------------------------------
(* Properties                                                              *)

\* C1: for every accepted (length, sbl_cnt, num_cnt), show() returns a string of
\* exactly length characters; for (0, 0, 0) it returns the empty string, each of
\* the three decompositions still holding one chunk of size 0.
C1_LengthExact ==
    Returned =>
        /\ Len(returned) = args[1]
        /\ Len(returned) = length
        /\ args = <<0, 0, 0>> =>
              /\ returned = <<>>
              /\ \A c \in 1..3 : chunk[c] = <<0>>

\* a call on a length above UNIT has returned
C1_Witness == Returned /\ args[1] = UNIT + 1 /\ Len(returned) = UNIT + 1

\* C2: the returned string holds exactly sbl_cnt symbols, num_cnt digits and
\* length - sbl_cnt - num_cnt letters; the three character sets are the listed
\* byte ranges, pairwise disjoint, with 52, 32 and 10 entries.
C2_CategoryCounts ==
    /\ \A c \in 1..3 : CharsOf(_DATA[c]) = CatBytes[c]
    /\ Len(_DATA[1]) = 52 /\ Len(_DATA[2]) = 32 /\ Len(_DATA[3]) = 10
    /\ \A c, d \in 1..3 : c # d => CharsOf(_DATA[c]) \cap CharsOf(_DATA[d]) = {}
    /\ Returned =>
          /\ CountIn(returned, SymbolBytes) = args[2]
          /\ CountIn(returned, DigitBytes) = args[3]
          /\ CountIn(returned, LetterBytes) = args[1] - args[2] - args[3]

\* a call with all three categories present has returned
C2_Witness ==
    /\ Returned
    /\ args = <<UNIT + 1, 2, 1>>
    /\ CountIn(returned, SymbolBytes) = 2
    /\ CountIn(returned, DigitBytes) = 1
    /\ CountIn(returned, LetterBytes) = UNIT - 2

\* C3: for non-negative arguments new fails with the length error exactly when
\* length < sbl_cnt + num_cnt; otherwise it succeeds, the object holds the three
\* given values and its content is empty.
C3_LengthCheck ==
    (pc # "start" /\ \A k \in 1..3 : args[k] >= 0) =>
        /\ res = ErrLength <=> args[1] < args[2] + args[3]
        /\ args[1] >= args[2] + args[3] =>
              /\ res = "Ok"
              /\ <<length, sbl_cnt, num_cnt>> = args
              /\ shows = 0 => content = <<>>

\* new has succeeded on the boundary length = sbl_cnt + num_cnt, not all zero
C3_Witness ==
    /\ pc = "idle" /\ shows = 0 /\ res = "Ok"
    /\ args[1] = args[2] + args[3] /\ args[2] > 0 /\ args[3] > 0

\* C4: new fails with the "should all be positive" error whenever an argument is
\* negative, also when length < sbl_cnt + num_cnt; no object is produced and
\* nothing is generated.
C4_NegativeRejected ==
    (pc # "start" /\ \E k \in 1..3 : args[k] < 0) =>
        /\ res = ErrPositive
        /\ pc = "err"
        /\ <<length, sbl_cnt, num_cnt, content>> = <<0, 0, 0, <<>> >>
        /\ shows = 0 /\ chunk = Empty3 /\ PWD = <<>> /\ returned = <<>>

\* new(-1, 1, 1) has failed
C4_Witness == pc = "err" /\ args = <<-1, 1, 1>> /\ res = ErrPositive

\* C5: after one or more show() calls content is the string the latest call
\* produced and returned (replaced, not appended to), and the three counts are
\* the ones the object was built with.
C5_ContentCached ==
    /\ res = "Ok" => <<length, sbl_cnt, num_cnt>> = args
    /\ Returned =>
          /\ content = returned
          /\ AsBytes(content) = bytes
          /\ Len(content) = length

\* a second call has returned on an object of non-zero length
C5_Witness == Returned /\ shows = 2 /\ Len(content) = 2 /\ length = 2

\* C6: _DIV_UNIT(n) is non-empty, sums to n, has every chunk <= 127 and every
\* chunk but the last equal to UNIT; 0 yields [0] and 127 yields [127, 0].
C6_Decomposition ==
    pc = "tested" =>
        /\ Len(t_out) >= 1
        /\ Sum(t_out) = t_in
        /\ \A i \in DOMAIN t_out : t_out[i] >= 0 /\ t_out[i] <= 127
        /\ \A i \in 1..(Len(t_out) - 1) : t_out[i] = UNIT
        /\ t_in = 0 => t_out = <<0>>
        /\ t_in = 127 => t_out = <<127, 0>>

\* a multiple of UNIT has been decomposed, its last chunk being 0
C6_Witness == pc = "tested" /\ t_in = 2 * UNIT /\ t_out = <<UNIT, UNIT, 0>>

\* C7: _RAND_IDX(n, cnt) with cnt > 0 returns exactly n indices, each in [0, cnt).
C7_IndicesInRange ==
    pc = "tested" =>
        /\ t_out.ok
        /\ Len(t_out.v) = t_in.n
        /\ \A j \in DOMAIN t_out.v : 0 <= t_out.v[j] /\ t_out.v[j] < t_in.cnt

\* a call has drawn the lowest and the highest index of the letters
C7_Witness ==
    /\ pc = "tested" /\ t_in.cnt = 52 /\ t_in.n >= 2
    /\ \E i, j \in DOMAIN t_out.v : t_out.v[i] = 0 /\ t_out.v[j] = 51

\* C8: the string show() stores and returns is a permutation of the pre-shuffle
\* string: the same characters, each the same number of times.
C8_ShufflePermutes ==
    /\ pc = "store" => SameBag(bytes, AsBytes(PWD))
    /\ Returned => SameBag(returned, PWD) /\ SameBag(content, PWD)

\* a call has returned a string that differs from the pre-shuffle string
C8_Witness ==
    /\ Returned /\ returned # PWD /\ Len(PWD) > UNIT
    /\ CountIn(PWD, SymbolBytes) > 0 /\ CountIn(PWD, LetterBytes) > 0

\* what C9 says of a state
C9_State ==
    /\ pc \in {"div", "par", "join"} => bytes = <<>>
    /\ pc \in {"join", "shuffle", "store"} => AllJoined
    /\ \A c \in 1..3 : \A i \in Done(c) :
          /\ Len(out[c][i]) = chunk[c][i]
          /\ \A j \in DOMAIN out[c][i] : out[c][i][j] \in CatBytes[c]
    /\ (pc \in {"shuffle", "store"} \/ Returned) =>
          PWD = Concat(out[1]) \o Concat(out[2]) \o Concat(out[3])

\* what C9 says of a step: within a call, no step changes the output of a chunk
\* task that has completed
C9_Step ==
    pc # "idle" =>
        \A c \in 1..3 : \A i \in Done(c) : i \in DOMAIN out'[c] /\ out'[c][i] = out[c][i]

\* C9: chunk tasks complete in any order without touching each other's output;
\* the pre-shuffle string is the chunk strings in decomposition order, categories
\* in the order letters, symbols, digits, each chunk string of its chunk's size
\* and category; the shuffle starts only after every chunk task has completed.
C9_ForkJoin == [](C9_State) /\ [][C9_Step]_vars

\* the two chunk tasks of the letters completed last-first, with different outputs
C9_Witness ==
    /\ pc = "shuffle"
    /\ order[1] = <<2, 1>>
    /\ Len(out[1][1]) = UNIT /\ Len(out[1][2]) = 1
    /\ out[1][1][1] # out[1][2][1]

\* a show() call is in progress
InCall == pc \in {"div", "par", "join", "shuffle", "store"}

\* how far a call has come: (category or later stage, stage within the category,
\* chunk tasks completed); a call that has returned or failed is past every stage
Pos ==
    CASE pc = "div"     -> <<cat, 0, 0>>
      [] pc = "par"     -> <<cat, 1, Len(order[cat])>>
      [] pc = "join"    -> <<4, 0, 0>>
      [] pc = "shuffle" -> <<5, 0, 0>>
      [] pc = "store"   -> <<6, 0, 0>>
      [] OTHER          -> <<7, 0, 0>>

LexLess(p, q) ==
    \/ p[1] < q[1]
    \/ p[1] = q[1] /\ p[2] < q[2]
    \/ p[1] = q[1] /\ p[2] = q[2] /\ p[3] < q[3]

\* what C10 says of a state
C10_State ==
    /\ pc # "failed"
    /\ InCall =>
          /\ cnts[1] >= 0
          /\ cnts = <<length - sbl_cnt - num_cnt, sbl_cnt, num_cnt>>
          /\ cat \in 1..3
          /\ \A c \in 1..3 : Len(_DATA[c]) > 0
    /\ \A c \in 1..3 : chunk[c] # <<>> =>
          /\ Len(chunk[c]) = (cnts[c] \div UNIT) + 1
          /\ Len(order[c]) <= Len(chunk[c])
          /\ \A i \in Done(c) : \A j \in DOMAIN out[c][i] :
                \E x \in DOMAIN _DATA[c] : _DATA[c][x] = <<out[c][i][j]>>

\* what C10 says of a step: every step of a call brings it further
C10_Step == InCall => (pc' # "failed" /\ LexLess(Pos, Pos'))

\* C10: once new has succeeded, show() never fails and always returns: the letter
\* count is length - sbl_cnt - num_cnt >= 0, every decomposition ends (with
\* count \div UNIT + 1 chunks), every sampling loop ends, every sampled category
\* is non-empty and every sampled index picks a character of its category; every
\* step brings the call further through its finitely many stages.
C10_NoFailure == [](C10_State) /\ [][C10_Step]_vars

\* a call has returned on an object with no letters at all
C10_Witness ==
    /\ Returned /\ shows = calls
    /\ args[1] = UNIT + 1 /\ cnts[1] = 0 /\ chunk[1] = <<0>>

=============================================================================
